---- MODULE Spec2Model ----
(***************************************************************************)
(* Model of the client side RPC request driver                             *)
(* (yggdrasil/drivers/RPCRequestDriver.py) and of the typed message codec  *)
(* (cis_interface/datatypes/CisBaseType.py).                               *)
(*                                                                         *)
(* Two threads act on one RPCRequestDriver: "W", the driver's worker that  *)
(* runs before_loop and run_loop, and "X", a thread that calls the         *)
(* driver's public methods (close_comm).  RPCResponseDriver threads and    *)
(* the peers of their comms are the environment.                           *)
(*                                                                         *)
(* The codec is modelled twice: the class methods encode and decode on     *)
(* given arguments (CodecSpec), and one instance with its typedef that     *)
(* serializes and deserializes messages (TypeSpec).                        *)
(***************************************************************************)
EXTENDS Integers, Sequences, FiniteSets, TLC

\* ---------------------------------------------------------------- bounds
MaxRecv == 2        \* receives performed by the worker's loop
MaxClose == 1       \* close_comm calls made by the other thread
MaxUpdate == 2      \* update_typedef calls made on one type instance

\* ------------------------------------------------------------- constants
YGG_CLIENT_INI == "YGG_BEGIN_CLIENT"
YGG_CLIENT_EOF == "YGG_END_CLIENT"
FLAG_SUCCESS == "SUCCESS"
FLAG_EOF == "EOF"
FLAG_EMPTY == "EMPTY"
FLAG_FAILURE == "FAILURE"

\* ----------------------------------------------------------- input sets
InputModels == {"A", "B"}          \* clients registered at wiring time
OutputModels == {"S"}              \* the server model
NoModel == ""                      \* msg.header.get('model', '')
ModelAddresses == {"addrA"}        \* clients' response addresses
RequestIds == {1, 2}
CommTypes == {"zmq"}
NoAddress == "none"
NoId == 0
NoCommType == ""
Threads == {"W", "X"}
NoThread == "none"

VARIABLES
    models,             \* self.models: direction -> set of model names
    response_drivers,   \* self.response_drivers: list of driver references
    block_response,     \* self._block_response
    icomm_open,         \* self.icomm is open
    ocomm_open,         \* self.ocomm is open
    lock,               \* self.lock (re-entrant): [owner, count]
    drivers,            \* every RPCResponseDriver object constructed so far
    sent,               \* every message handed to the base send_message
    pc,                 \* position of each thread
    msg,                \* the worker's current message
    rm,                 \* remove_model's arguments and result
    was_break,          \* self.was_break
    send_ret,           \* value returned by the last send_message call
    response_driver,    \* send_message's local response_driver (a reference)
    nrecv, nclose,      \* counters that bound the run
    send_serializer,    \* self.ocomm._send_serializer
    signed_off,         \* the clients whose EOF the input comm has delivered
    codec,              \* one use of the typed message codec
    inst,               \* one CisBaseType instance and the message it handles
    table,              \* an AsciiTableComm endpoint and the endpoint paired to it
    conn,               \* one ConnectionDriver with the comms at its two sides
    printing            \* one printStatus call: its position in the list

dvars == <<models, response_drivers, block_response, icomm_open, ocomm_open,
           lock, drivers, sent, pc, msg, rm, was_break, send_ret,
           response_driver, nrecv, nclose, send_serializer, signed_off>>

vars == <<dvars, codec, inst, table, conn, printing>>

\* ------------------------------------------------------------- messages
CommMessage(flag, args, model, address, id, commtype) ==
    [flag |-> flag, args |-> args, model |-> model,
     response_address |-> address, request_id |-> id, commtype |-> commtype]

NoMessage == CommMessage("none", "", NoModel, NoAddress, NoId, "")
EmptyMessage == CommMessage(FLAG_EMPTY, "", NoModel, NoAddress, NoId, "")
FailureMessage == CommMessage(FLAG_FAILURE, "", NoModel, NoAddress, NoId, "")
EofMessage(model) == CommMessage(FLAG_EOF, "EOF", model, NoAddress, NoId, "")

\* What the input comm can hand to the worker.
Requests ==
    { CommMessage(FLAG_SUCCESS, "request", "A", a, i, c) :
        a \in ModelAddresses, i \in RequestIds, c \in CommTypes }
EofMessages == { EofMessage(m) : m \in InputModels \cup {NoModel} }

\* A message as it is handed to the base send_message: flag, payload and the
\* header_kwargs; ok tells whether the output comm accepted it.
Outgoing(flag, args, model, address, id, commtype, ok) ==
    [flag |-> flag, args |-> args, model |-> model,
     response_address |-> address, request_id |-> id, commtype |-> commtype,
     ok |-> ok]

\* ------------------------------------------------------- derived values
clients == models["input"]
nclients == Cardinality(clients)
is_comm_open == icomm_open /\ ocomm_open

Range(s) == { s[i] : i \in 1..Len(s) }
Count(s, P(_)) == Cardinality({ i \in 1..Len(s) : P(s[i]) })

\* Messages that reached the shared request channel.
OnChannel(m) == m.ok
IsEof(m) == m.flag = FLAG_EOF
IsClientEnd(m) == m.args = YGG_CLIENT_EOF
IsRequest(m) == m.args = "request"

\* ------------------------------------------------------------ the lock
Free == [owner |-> NoThread, count |-> 0]
CanAcquire(t) == lock.owner \in {NoThread, t}
Acquire(t) == [owner |-> t, count |-> lock.count + 1]
Release(t) == IF lock.count = 1 THEN Free
              ELSE [owner |-> t, count |-> lock.count - 1]

\* ---------------------------------------------- base class ConnectionDriver
\* ConnectionDriver.send_message: the output comm takes the message when it
\* is open and refuses it when it is closed.
BaseSend(log, flag, args, model, address, id, commtype) ==
    Append(log, Outgoing(flag, args, model, address, id, commtype, ocomm_open))

\* ConnectionDriver.remove_model: idempotent removal.
BaseRemoveModel(reg, direction, name) ==
    [reg EXCEPT ![direction] = @ \ {name}]

\* ConnectionDriver.send_eof: an EOF message through send_message; for an EOF
\* RPCRequestDriver.send_message goes straight to the base send.
SendEof(log) ==
    IF ocomm_open
    THEN BaseSend(log, FLAG_EOF, "EOF", NoModel, NoAddress, NoId, NoCommType)
    ELSE log

\* ------------------------------------------------------- response drivers
\* One response address shared by every driver.
ResponseAddressShared(id) == 1

\* RPCResponseDriver(model_response_address, request_id, ...): the address of
\* its own response comm is new for every driver.
ResponseAddress(id) == id

NewDriver(id, m, started) ==
    [model_response_address |-> m.response_address,
     request_id |-> m.request_id,
     response_address |-> ResponseAddress(id),
     started |-> started, alive |-> started, terminated |-> FALSE,
     confirmed_recv |-> FALSE, confirmed_send |-> FALSE,
     cleaned |-> FALSE]

\* The driver after __init__ (lines 47-65).
DriverInit ==
    /\ models = [d \in {"input", "output"} |->
                    IF d = "input" THEN InputModels ELSE OutputModels]
    /\ response_drivers = <<>>
    /\ block_response = FALSE
    /\ icomm_open = TRUE
    /\ ocomm_open = TRUE
    /\ lock = Free
    /\ drivers = <<>>
    /\ sent = <<>>
    /\ pc = [t \in Threads |-> IF t = "W" THEN "before_loop" ELSE "idle"]
    /\ msg = NoMessage
    /\ rm = [direction |-> "input", name |-> NoModel, out |-> FALSE]
    /\ was_break = FALSE
    /\ send_ret = TRUE
    /\ response_driver = 0
    /\ nrecv = 0
    /\ nclose = 0
    /\ send_serializer = FALSE
    /\ signed_off = {}

\* ------------------------------------------------------------ remove_model
\* The sentinel condition without the registry test.
SendsClientEofAnyName(direction, name) ==
    direction = "input"

\* The sentinel sent on every call.
SendsClientEofAlways(direction, name) == TRUE

\* remove_model, line 123: the client-end sentinel is sent for a client that
\* is still registered.
SendsClientEof(direction, name) ==
    (direction = "input") /\ (name \in clients)

\* remove_model, lines 122-128: take the lock, send the sentinel.
RmSentinel ==
    /\ pc["W"] = "rm_sentinel"
    /\ CanAcquire("W")
    /\ lock' = Acquire("W")
    /\ sent' = IF SendsClientEof(rm.direction, rm.name)
               THEN BaseSend(sent, FLAG_SUCCESS, YGG_CLIENT_EOF, rm.name,
                             NoAddress, NoId, NoCommType)
               ELSE sent
    /\ pc' = [pc EXCEPT !["W"] = "rm_remove"]
    /\ UNCHANGED <<models, response_drivers, block_response, icomm_open,
                   ocomm_open, drivers, msg, rm, was_break, send_ret,
                   response_driver, nrecv, nclose, send_serializer,
                   signed_off, codec, inst, table, conn, printing>>

\* remove_model, lines 129-130: the base class removes the model and tells
\* whether the direction's registry is empty.
RmRemove ==
    /\ pc["W"] = "rm_remove"
    /\ lock.owner = "W"
    /\ models' = BaseRemoveModel(models, rm.direction, rm.name)
    /\ rm' = [rm EXCEPT !.out = (models'[rm.direction] = {})]
    /\ pc' = [pc EXCEPT !["W"] = "rm_eof"]
    /\ UNCHANGED <<response_drivers, block_response, icomm_open, ocomm_open,
                   lock, drivers, sent, msg, was_break, send_ret,
                   response_driver, nrecv, nclose, send_serializer,
                   signed_off, codec, inst, table, conn, printing>>

\* remove_model, lines 131-133: send EOF when the registry is empty, release
\* the lock and return to the caller (on_eof on the worker).
RmSendEof ==
    /\ pc["W"] = "rm_eof"
    /\ lock.owner = "W"
    /\ sent' = IF rm.out THEN SendEof(sent) ELSE sent
    /\ lock' = Release("W")
    /\ pc' = [pc EXCEPT !["W"] = "eof_check"]
    /\ UNCHANGED <<models, response_drivers, block_response, icomm_open,
                   ocomm_open, drivers, msg, rm, was_break, send_ret,
                   response_driver, nrecv, nclose, send_serializer,
                   signed_off, codec, inst, table, conn, printing>>

\* ------------------------------------------------------------------ on_eof
\* An on_eof that does not read the header.
EofModelNone(m) == NoModel

\* Line 147: msg.header.get('model', '').
EofModel(m) == m.model

\* on_eof, lines 146-147: take the lock and call remove_model with the model
\* named by the EOF message's header.
OnEof ==
    /\ pc["W"] = "on_eof"
    /\ CanAcquire("W")
    /\ lock' = Acquire("W")
    /\ rm' = [direction |-> "input", name |-> EofModel(msg), out |-> FALSE]
    /\ pc' = [pc EXCEPT !["W"] = "rm_sentinel"]
    /\ UNCHANGED <<models, response_drivers, block_response, icomm_open,
                   ocomm_open, drivers, sent, msg, was_break, send_ret,
                   response_driver, nrecv, nclose, send_serializer,
                   signed_off, codec, inst, table, conn, printing>>

\* on_eof that propagates every EOF.
OnEofResultAlways(m, n) == m

\* on_eof, lines 148-152: the value returned to recv_message.
OnEofResult(m, n) ==
    IF n = 0 THEN m ELSE EmptyMessage

\* on_eof after remove_model returned.  The base on_eof (line 150) ends the
\* loop and returns the EOF message, which the pump then forwards.
OnEofCheck ==
    /\ pc["W"] = "eof_check"
    /\ lock.owner = "W"
    /\ msg' = OnEofResult(msg, nclients)
    /\ was_break' = (msg'.flag = FLAG_EOF)
    /\ lock' = Release("W")
    /\ pc' = [pc EXCEPT !["W"] = IF msg'.flag = FLAG_EOF THEN "send_check"
                                 ELSE "prune"]
    /\ UNCHANGED <<models, response_drivers, block_response, icomm_open,
                   ocomm_open, drivers, sent, rm, send_ret, response_driver,
                   nrecv, nclose, send_serializer,
                   signed_off, codec, inst, table, conn, printing>>

\* ---------------------------------------------------------------- run_loop
\* A run_loop that prunes whatever was_break says.
AfterSendPrunes == "prune"

\* Where run_loop goes after send_message returned: line 209.
AfterSend == IF was_break THEN "done" ELSE "prune"

\* before_loop, lines 154-157: nothing is sent.
BeforeLoop ==
    /\ pc["W"] = "before_loop"
    /\ send_serializer' = TRUE
    /\ pc' = [pc EXCEPT !["W"] = "recv"]
    /\ UNCHANGED <<models, response_drivers, block_response, icomm_open,
                   ocomm_open, lock, drivers, sent, msg, rm, was_break,
                   send_ret, response_driver, nrecv, nclose, signed_off,
                   codec, inst, table, conn, printing>>

\* The clients that can be the sender of a message the input comm delivers:
\* the one its header names, any client when the header names none.
Senders(m) == IF m.model = NoModel THEN InputModels ELSE {m.model}

\* The base run_loop receives one message from the input comm.
RecvMessage ==
    /\ pc["W"] = "recv"
    /\ ~was_break
    /\ nrecv < MaxRecv
    /\ nrecv' = nrecv + 1
    /\ \E m \in Requests \cup EofMessages \cup {EmptyMessage, FailureMessage} :
        /\ (~icomm_open) => (m = FailureMessage)
        /\ msg' = m
        /\ was_break' = (m.flag = FLAG_FAILURE)
        /\ IF m.flag = FLAG_EOF
           THEN \E c \in Senders(m) : signed_off' = signed_off \cup {c}
           ELSE signed_off' = signed_off
        /\ pc' = [pc EXCEPT !["W"] =
                    CASE m.flag = FLAG_FAILURE -> "done"
                      [] m.flag = FLAG_EMPTY -> "prune"
                      [] m.flag = FLAG_EOF -> "on_eof"
                      [] OTHER -> "send_check"]
    /\ UNCHANGED <<models, response_drivers, block_response, icomm_open,
                   ocomm_open, lock, drivers, sent, rm, send_ret,
                   response_driver, nclose, send_serializer, codec, inst, table, conn, printing>>

\* ------------------------------------------------------------ send_message
\* send_message, lines 171-174.
SendCheck ==
    /\ pc["W"] = "send_check"
    /\ IF ~ocomm_open
       THEN /\ send_ret' = FALSE
            /\ pc' = [pc EXCEPT !["W"] = AfterSend]
       ELSE /\ send_ret' = send_ret
            /\ pc' = [pc EXCEPT !["W"] = IF msg.flag # FLAG_EOF
                                         THEN "send_lock" ELSE "send_base"]
    /\ UNCHANGED <<models, response_drivers, block_response, icomm_open,
                   ocomm_open, lock, drivers, sent, msg, rm, was_break,
                   response_driver, nrecv, nclose, send_serializer,
                   signed_off, codec, inst, table, conn, printing>>

\* What the try block of lines 187-195 can do: the constructor raises, start
\* raises, or the driver is started.
StartOutcomes == {"ctor_raises", "start_raises", "started"}

\* A test of the comms only.
ResponseBlockedByComm == ~is_comm_open

\* Line 176: the driver refuses to create a response driver.
ResponseBlocked == (~is_comm_open) \/ block_response

\* Lines 188-189: the driver is appended once it is constructed.
Appended(outcome) == outcome # "ctor_raises"

\* An except clause that logs and does not return.
SendProceedsAfterRaise(outcome) == outcome # "ctor_raises"

\* Lines 193-195: send_message goes on to the header and the base send only
\* when nothing was raised.
SendProceeds(outcome) == outcome = "started"

\* send_message, lines 175-195, under the lock.
SendLocked ==
    /\ pc["W"] = "send_lock"
    /\ CanAcquire("W")
    /\ IF ResponseBlocked
       THEN /\ send_ret' = FALSE
            /\ pc' = [pc EXCEPT !["W"] = AfterSend]
            /\ UNCHANGED <<drivers, response_drivers, response_driver>>
       ELSE \E outcome \in StartOutcomes :
            LET id == Len(drivers) + 1 IN
            /\ IF Appended(outcome)
               THEN /\ drivers' = Append(drivers,
                                    NewDriver(id, msg, outcome = "started"))
                    /\ response_drivers' = Append(response_drivers, id)
                    /\ response_driver' = id
               ELSE UNCHANGED <<drivers, response_drivers, response_driver>>
            /\ IF SendProceeds(outcome)
               THEN /\ send_ret' = send_ret
                    /\ pc' = [pc EXCEPT !["W"] = "send_base"]
               ELSE /\ send_ret' = FALSE
                    /\ pc' = [pc EXCEPT !["W"] = AfterSend]
    /\ UNCHANGED <<models, block_response, icomm_open, ocomm_open, lock,
                   sent, msg, rm, was_break, nrecv, nclose, send_serializer,
                   signed_off, codec, inst, table, conn, printing>>

\* The header_kwargs of lines 197-201: response_address, request_id and
\* model are set, a commtype is not.
HeaderCommType(m, x) == NoCommType

\* send_message, lines 196-202: the header fields and the base send.
SendBase ==
    /\ pc["W"] = "send_base"
    /\ sent' = IF msg.flag # FLAG_EOF
               THEN BaseSend(sent, msg.flag, msg.args, msg.model,
                             drivers[response_driver].response_address,
                             msg.request_id,
                             HeaderCommType(msg, drivers[response_driver]))
               ELSE BaseSend(sent, msg.flag, msg.args, NoModel, NoAddress,
                             NoId, NoCommType)
    /\ send_ret' = ocomm_open
    /\ pc' = [pc EXCEPT !["W"] = AfterSend]
    /\ UNCHANGED <<models, response_drivers, block_response, icomm_open,
                   ocomm_open, lock, drivers, msg, rm, was_break,
                   response_driver, nrecv, nclose, send_serializer,
                   signed_off, codec, inst, table, conn, printing>>

\* --------------------------------------------------- prune_response_drivers
\* Eligibility that ignores whether the driver's thread is still running.
PruneEligibleNoAlive(x) ==
    x.confirmed_recv /\ x.confirmed_send

\* Lines 217-219.
PruneEligible(x) ==
    (~x.alive) /\ x.confirmed_recv /\ x.confirmed_send

\* Lines 215-221: the indices collected by the scan, in increasing order.
RECURSIVE RemoveIdx(_, _)
RemoveIdx(list, i) ==
    IF i > Len(list) THEN <<>>
    ELSE (IF PruneEligible(drivers[list[i]]) THEN <<i>> ELSE <<>>)
         \o RemoveIdx(list, i + 1)

Pop(list, i) == SubSeq(list, 1, i - 1) \o SubSeq(list, i + 1, Len(list))

\* Lines 222-223: pop the collected indices, last one first.
RECURSIVE PopReversed(_, _)
PopReversed(list, idx) ==
    IF idx = <<>> THEN list
    ELSE PopReversed(Pop(list, idx[Len(idx)]), SubSeq(idx, 1, Len(idx) - 1))

\* run_loop, lines 209-210, and prune_response_drivers.
Prune ==
    /\ pc["W"] = "prune"
    /\ CanAcquire("W")
    /\ LET idx == RemoveIdx(response_drivers, 1) IN
        /\ response_drivers' = PopReversed(response_drivers, idx)
        /\ drivers' = [d \in 1..Len(drivers) |->
                         IF \E k \in 1..Len(idx) :
                                response_drivers[idx[k]] = d
                         THEN [drivers[d] EXCEPT !.cleaned = TRUE]
                         ELSE drivers[d]]
    /\ pc' = [pc EXCEPT !["W"] = "recv"]
    /\ msg' = NoMessage
    /\ send_ret' = TRUE
    /\ response_driver' = 0
    /\ UNCHANGED <<models, block_response, icomm_open, ocomm_open, lock,
                   sent, rm, was_break, nrecv, nclose, send_serializer,
                   signed_off, codec, inst, table, conn, printing>>

\* ------------------------------------------------------------- close_comm
\* RPCResponseDriver.terminate.
Terminate(x) == [x EXCEPT !.terminated = TRUE, !.alive = FALSE]

\* A close that drops the list and terminates nothing.
TerminateNone(all, list) == all

\* Lines 94-95: the drivers in the list are terminated.
TerminateAll(all, list) ==
    [d \in 1..Len(all) |->
        IF d \in Range(list) THEN Terminate(all[d]) ELSE all[d]]

\* close_comm is called.
CloseComm ==
    /\ pc["X"] = "idle"
    /\ nclose < MaxClose
    /\ nclose' = nclose + 1
    /\ pc' = [pc EXCEPT !["X"] = "close_rd"]
    /\ UNCHANGED <<models, response_drivers, block_response, icomm_open,
                   ocomm_open, lock, drivers, sent, msg, rm, was_break,
                   send_ret, response_driver, nrecv, send_serializer,
                   signed_off, codec, inst, table, conn, printing>>

\* close_response_drivers, lines 91-96.
CloseResponseDrivers ==
    /\ pc["X"] = "close_rd"
    /\ CanAcquire("X")
    /\ block_response' = TRUE
    /\ drivers' = TerminateAll(drivers, response_drivers)
    /\ response_drivers' = <<>>
    /\ pc' = [pc EXCEPT !["X"] = "close_base"]
    /\ UNCHANGED <<models, icomm_open, ocomm_open, lock, sent, msg, rm,
                   was_break, send_ret, response_driver, nrecv, nclose, send_serializer,
                   signed_off, codec, inst, table, conn, printing>>

\* close_comm, line 101: the base class closes both comms.
BaseCloseComm ==
    /\ pc["X"] = "close_base"
    /\ icomm_open' = FALSE
    /\ ocomm_open' = FALSE
    /\ pc' = [pc EXCEPT !["X"] = "closed"]
    /\ UNCHANGED <<models, response_drivers, block_response, lock, drivers,
                   sent, msg, rm, was_break, send_ret, response_driver,
                   nrecv, nclose, send_serializer,
                   signed_off, codec, inst, table, conn, printing>>

\* close_comm returns.
CloseReturn ==
    /\ pc["X"] = "closed"
    /\ pc' = [pc EXCEPT !["X"] = "idle"]
    /\ UNCHANGED <<models, response_drivers, block_response, icomm_open,
                   ocomm_open, lock, drivers, sent, msg, rm, was_break,
                   send_ret, response_driver, nrecv, nclose, send_serializer,
                   signed_off, codec, inst, table, conn, printing>>

\* ------------------------------------------------------------ environment
\* The only reader of a response driver's is_alive() and of its comms'
\* confirmation flags is the prune pass, so the environment's changes to them
\* are taken when the worker is about to prune.

\* A response driver's thread ends (its one reply was relayed, or it gave up).
DriverExits ==
    \E d \in 1..Len(drivers) :
        /\ pc["W"] = "prune"
        /\ d \in Range(response_drivers)
        /\ drivers[d].alive
        /\ drivers' = [drivers EXCEPT ![d].alive = FALSE]
        /\ UNCHANGED <<models, response_drivers, block_response, icomm_open,
                       ocomm_open, lock, sent, pc, msg, rm, was_break,
                       send_ret, response_driver, nrecv, nclose, send_serializer,
                   signed_off, codec, inst, table, conn, printing>>

\* A response driver's input comm reports its message confirmed.
ConfirmRecv ==
    \E d \in 1..Len(drivers) :
        /\ pc["W"] = "prune"
        /\ d \in Range(response_drivers)
        /\ ~drivers[d].confirmed_recv
        /\ drivers' = [drivers EXCEPT ![d].confirmed_recv = TRUE]
        /\ UNCHANGED <<models, response_drivers, block_response, icomm_open,
                       ocomm_open, lock, sent, pc, msg, rm, was_break,
                       send_ret, response_driver, nrecv, nclose, send_serializer,
                   signed_off, codec, inst, table, conn, printing>>

\* A response driver's output comm reports its message confirmed.
ConfirmSend ==
    \E d \in 1..Len(drivers) :
        /\ pc["W"] = "prune"
        /\ d \in Range(response_drivers)
        /\ ~drivers[d].confirmed_send
        /\ drivers' = [drivers EXCEPT ![d].confirmed_send = TRUE]
        /\ UNCHANGED <<models, response_drivers, block_response, icomm_open,
                       ocomm_open, lock, sent, pc, msg, rm, was_break,
                       send_ret, response_driver, nrecv, nclose, send_serializer,
                   signed_off, codec, inst, table, conn, printing>>

\* --- printStatus, lines 103-107, called by a thread of its own
NewPrinting == [stage |-> "idle", blocked |-> FALSE, i |-> 0, seen |-> <<>>]

\* The list object a running iteration holds.  prune_response_drivers pops
\* from the object in place (line 223); close_response_drivers binds the
\* attribute to a new list (line 96) and leaves the old object as it was,
\* holding the drivers it terminated.
RECURSIVE TerminatedFrom(_)
TerminatedFrom(d) ==
    IF d > Len(drivers) THEN <<>>
    ELSE (IF drivers[d].terminated THEN <<d>> ELSE <<>>)
         \o TerminatedFrom(d + 1)

IteratedList ==
    IF block_response /\ ~printing.blocked THEN TerminatedFrom(1)
    ELSE response_drivers

\* Lines 105-106: the base printStatus, then the for statement takes an
\* iterator of self.response_drivers.  No lock is taken.
PrintStatus ==
    /\ printing.stage = "idle"
    /\ printing' = [stage |-> "iter", blocked |-> block_response, i |-> 1,
                    seen |-> <<>>]
    /\ UNCHANGED <<dvars, codec, inst, table, conn>>

\* Lines 106-107: one step of the iterator: the entry at its index, if the
\* list has one now, has its status printed.
PrintStatusNext ==
    /\ printing.stage = "iter"
    /\ printing' =
          IF printing.i <= Len(IteratedList)
          THEN [printing EXCEPT !.i = @ + 1,
                                !.seen = Append(@, IteratedList[printing.i])]
          ELSE [printing EXCEPT !.stage = "done"]
    /\ UNCHANGED <<dvars, codec, inst, table, conn>>

Next ==
    \/ BeforeLoop
    \/ RecvMessage
    \/ OnEof
    \/ OnEofCheck
    \/ SendCheck
    \/ SendLocked
    \/ SendBase
    \/ Prune
    \/ RmSentinel
    \/ RmRemove
    \/ RmSendEof
    \/ CloseComm
    \/ CloseResponseDrivers
    \/ BaseCloseComm
    \/ CloseReturn
    \/ DriverExits
    \/ ConfirmRecv
    \/ ConfirmSend

\* The driver with a thread that calls printStatus once.
PrintNext ==
    \/ Next
    \/ PrintStatus
    \/ PrintStatusNext

\* =================================================== typed message codec
\* cis_interface/datatypes/CisBaseType.py.  Mappings (typedef, metadata) are
\* functions from keys to values; None is a mapping of its own.
None == ("None" :> "None")
Get(m, k) == IF k \in DOMAIN m THEN m[k] ELSE "None"

\* --- the type: a subclass of CisBaseType for integers of a given precision
name == "int"
PrecisionValues == {"1", "2"}         \* properties['precision']['enum']
definition_properties == {"precision"}
metadata_properties == {"precision"}
properties == {"precision"}
Bits(p) == IF p = "1" THEN 1 ELSE 2

RECURSIVE Pow2(_)
Pow2(n) == IF n = 0 THEN 1 ELSE 2 * Pow2(n - 1)

IntObject(p, v) == [kind |-> "int", precision |-> p, value |-> v]
StrObject == [kind |-> "str", precision |-> "0", value |-> 0]
Objects ==
    { IntObject(p, v) : p \in PrecisionValues, v \in 0..3 } \cup {StrObject}
\* Python objects: an integer holds a value of its precision.
WellFormed(o) == (o.kind = "int") => (o.value < Pow2(Bits(o.precision)))

\* encode_type: raises CisTypeError for an object that is no integer.
EncodeTypeRaises(obj) == obj.kind # "int"
EncodeType(obj) == ("precision" :> obj.precision)

\* transform_type: cast to the precision the typedef names.
TransformType(obj, typedef) ==
    IF typedef = None \/ "precision" \notin DOMAIN typedef THEN obj
    ELSE [obj EXCEPT !.precision = typedef["precision"],
                     !.value = obj.value % Pow2(Bits(typedef["precision"]))]

\* encode_data: the value's binary digits, least significant first, as many
\* as the precision.
EncodeData(obj, typedef) ==
    [i \in 1..Bits(typedef["precision"]) |->
        (obj.value \div Pow2(i - 1)) % 2]

\* decode_data: the integer the digits stand for, at the metadata's precision.
RECURSIVE DigitsValue(_, _)
DigitsValue(data, i) ==
    IF i > Len(data) THEN 0
    ELSE data[i] * Pow2(i - 1) + DigitsValue(data, i + 1)

DecodeData(data, typedef) ==
    IntObject(typedef["precision"],
              DigitsValue(data, 1) % Pow2(Bits(typedef["precision"])))

\* --- CisBaseType
\* jsonschema.validate against a schema with these required keys: the keys
\* are present, and every key the schema describes holds a value it allows.
Validates(obj, required) ==
    /\ obj # None
    /\ required \subseteq DOMAIN obj
    /\ ("typename" \in DOMAIN obj) => (obj["typename"] = name)
    /\ ("precision" \in DOMAIN obj) => (obj["precision"] \in PrecisionValues)

\* definition_schema, lines 169-182, and validate_definition, lines 203-210.
ValidateDefinition(obj) ==
    Validates(obj, definition_properties \cup {"typename"})

\* metadata_schema, lines 185-190, and validate_metadata, lines 193-200.
ValidateMetadata(obj) ==
    Validates(obj, metadata_properties \cup {"typename"})

\* check_meta_compat, lines 213-226.
CheckMetaCompat(k, v1, v2) == v1 = v2

\* check_encoded, lines 229-260.
CheckEncoded(metadata, typedef) ==
    /\ ValidateMetadata(metadata)
    /\ (typedef # None) =>
        /\ ValidateDefinition(typedef)
        /\ \A k \in DOMAIN typedef :
            CheckMetaCompat(k, Get(metadata, k), typedef[k])

\* Lines 276-277: the object's type definition with the typename set.
WithTypename(datadef) == datadef @@ ("typename" :> name)

\* check_decoded, lines 263-281.
CheckDecoded(obj, typedef) ==
    /\ ~EncodeTypeRaises(obj)
    /\ CheckEncoded(WithTypename(EncodeType(obj)), typedef)

\* What a call of encode or decode hands back: the error raised or the values
\* returned, and the hooks and checks the call went through, in order.
Raised(error) ==
    [status |-> error, metadata |-> None, data |-> <<>>, obj |-> StrObject,
     calls |-> <<>>]
Encoded(metadata, data) ==
    [status |-> "ok", metadata |-> metadata, data |-> data, obj |-> StrObject,
     calls |-> <<>>]
Decoded(obj) ==
    [status |-> "ok", metadata |-> None, data |-> <<>>, obj |-> obj,
     calls |-> <<>>]
Through(calls, result) == [result EXCEPT !.calls = calls]

\* Line 310 left out: the metadata is the bare type definition of the object.
EncodeMetadataBare(obj_t) == EncodeType(obj_t)

\* encode, lines 309-310.
EncodeMetadata(obj_t) == WithTypename(EncodeType(obj_t))

\* An encode that goes on after the first check failed.
EncodeRejectsNever(obj, typedef) == FALSE

\* encode, line 306: the object is refused.
EncodeRejects(obj, typedef) == ~CheckDecoded(obj, typedef)

\* encode, lines 306-317.
Encode(obj, typedef) ==
    IF EncodeRejects(obj, typedef)
    THEN Through(<<"check_decoded">>, Raised("ValueError"))
    ELSE LET obj_t == TransformType(obj, typedef)
             metadata == EncodeMetadata(obj_t)
             data == EncodeData(obj_t, metadata)
             calls == <<"check_decoded", "transform_type", "encode_type",
                        "encode_data", "check_encoded">>
         IN  IF ~CheckEncoded(metadata, typedef)
             THEN Through(calls, Raised("ValueError"))
             ELSE Through(calls, Encoded(metadata, data))

\* decode, lines 338-344.
Decode(metadata, data, typedef) ==
    IF ~CheckEncoded(metadata, typedef)
    THEN Through(<<"check_encoded">>, Raised("ValueError"))
    ELSE LET out == DecodeData(data, metadata) IN
         IF ~CheckDecoded(out, typedef)
         THEN Through(<<"check_encoded", "decode_data", "check_decoded">>,
                      Raised("ValueError"))
         ELSE Through(<<"check_encoded", "decode_data", "check_decoded",
                        "transform_type">>,
                      Decoded(TransformType(out, typedef)))

\* An extract_typedef that keeps every key.
ExtractKeepsAll(k) == TRUE

\* extract_typedef, lines 127-131: the keys that are kept are the required
\* keys of the definition schema.
ExtractKeeps(k) == k \in definition_properties \cup {"typename"}

\* extract_typedef, lines 126-133: the error raised or the mapping returned,
\* and the argument as the call leaves it (the deletions are made in a deep
\* copy).
ExtractTypedef(metadata) ==
    LET out == [k \in {x \in DOMAIN metadata : ExtractKeeps(x)} |->
                    metadata[k]]
    IN  [status |-> IF ValidateDefinition(out) THEN "ok"
                    ELSE "ValidationError",
         out |-> IF ValidateDefinition(out) THEN out ELSE None,
         metadata |-> metadata]

\* --- one use of the codec: an object and a typedef are given, the object is
\* encoded, and what was encoded, or a message that arrived, is decoded.
Typedefs ==
    {None, ("typename" :> name)}
    \cup { ("typename" :> n) @@ ("precision" :> p) :
            n \in {name, "str"}, p \in PrecisionValues \cup {"3"} }
Metadatas == Typedefs \ {None}
Datas == { <<>>, <<0>>, <<1>>, <<0, 1>>, <<1, 1>> }

CodecStart(obj, typedef) ==
    [stage |-> "input", obj |-> obj, typedef |-> typedef,
     encoded |-> Raised("none"), decoded |-> Raised("none"),
     extracted |-> [status |-> "none", out |-> None, metadata |-> None]]

CodecInputs ==
    { CodecStart(o, t) : o \in {x \in Objects : WellFormed(x)}, t \in Typedefs }

CodecEncode ==
    /\ codec.stage = "input"
    /\ codec' = [codec EXCEPT !.stage = "encoded",
                              !.encoded = Encode(codec.obj, codec.typedef)]
    /\ UNCHANGED <<dvars, inst, table, conn, printing>>

\* A message arrives from another process instead.
CodecReceive ==
    /\ codec.stage = "input"
    /\ \E metadata \in Metadatas, data \in Datas :
        codec' = [codec EXCEPT !.stage = "received",
                               !.encoded = Encoded(metadata, data)]
    /\ UNCHANGED <<dvars, inst, table, conn, printing>>

CodecDecode ==
    /\ codec.stage \in {"encoded", "received"}
    /\ codec.encoded.status = "ok"
    /\ codec' = [codec EXCEPT !.stage = IF codec.stage = "encoded"
                                        THEN "decoded" ELSE "decoded_received",
                              !.decoded = Decode(codec.encoded.metadata,
                                                 codec.encoded.data,
                                                 codec.typedef)]
    /\ UNCHANGED <<dvars, inst, table, conn, printing>>

\* Metadata of received messages, with and without header fields that do
\* not describe the type.
ExtractInputs ==
    Metadatas \cup { m @@ ("model" :> "A") : m \in Metadatas }
              \cup { ("model" :> "A") }

\* extract_typedef is applied to the metadata of a received message.
CodecExtract ==
    /\ codec.stage = "input"
    /\ \E metadata \in ExtractInputs :
        codec' = [codec EXCEPT !.stage = "extracted",
                               !.encoded = Encoded(metadata, <<>>),
                               !.extracted = ExtractTypedef(metadata)]
    /\ UNCHANGED <<dvars, inst, table, conn, printing>>

CodecNext ==
    \/ CodecEncode
    \/ CodecReceive
    \/ CodecDecode
    \/ CodecExtract

\* ==================================================== a type instance
\* An instance of the integer type: its _typedef, and one message that it
\* serializes or that arrives for it.  Bytes are sequences of byte tokens; the
\* separator is one token.
sep == ":CIS_TAG:"
empty_msg == [kind |-> "empty", precision |-> "0", value |-> 0]
EmptyMapping == [k \in {} |-> "None"]

\* Python truth of a string or None.
Truthy(v) == v \notin {"", "None"}

\* definition_schema()['properties'], lines 176-181.
SchemaProperties == properties \cup {"typename"}

\* update_typedef, lines 152-155.
TypenameClash(typename0, typename1) ==
    Truthy(typename1) /\ Truthy(typename0) /\ (typename1 # typename0)

\* update_typedef, lines 152-166: the error raised if any, and self._typedef
\* as the call leaves it.
UpdateTypedef(typedef, kwargs) ==
    IF TypenameClash(Get(typedef, "typename"), Get(kwargs, "typename"))
    THEN [status |-> "CisTypeError", typedef |-> typedef]
    ELSE LET copied == DOMAIN kwargs \cap SchemaProperties
             new == [k \in DOMAIN typedef \cup copied |->
                        IF k \in copied THEN kwargs[k] ELSE typedef[k]]
         IN  [status |-> IF ValidateDefinition(new) THEN "ok"
                         ELSE "ValidationError",
              typedef |-> new]

\* __init__, lines 46-49.
Construct(kwargs) ==
    UpdateTypedef(EmptyMapping,
                  IF "typename" \in DOMAIN kwargs THEN kwargs
                  ELSE kwargs @@ ("typename" :> name))

\* --- json
\* The bytes of a string.
Chars(v) ==
    CASE v = "a:CIS_TAG:b" -> <<"a", sep, "b">>
      [] v = "" -> <<>>
      [] OTHER -> <<v>>
Strings ==
    {"typename", "precision", "model", "int", "str", "1", "2", "3", "A", "",
     "a:CIS_TAG:b"}

\* sort_keys=True.
SortedKeys == <<"model", "precision", "typename">>

JsonString(v) == <<"\"">> \o Chars(v) \o <<"\"">>

RECURSIVE JsonEntries(_, _, _)
JsonEntries(m, i, first) ==
    IF i > Len(SortedKeys) THEN <<>>
    ELSE IF SortedKeys[i] \notin DOMAIN m THEN JsonEntries(m, i + 1, first)
    ELSE (IF first THEN <<>> ELSE <<",">>)
         \o JsonString(SortedKeys[i]) \o <<":">> \o JsonString(m[SortedKeys[i]])
         \o JsonEntries(m, i + 1, FALSE)

\* json.dumps(metadata, sort_keys=True), line 358.
JsonDumps(m) == <<"{">> \o JsonEntries(m, 1, TRUE) \o <<"}">>

\* The index of the first token t at or after i, 0 when there is none.
RECURSIVE Find(_, _, _)
Find(b, t, i) ==
    IF i > Len(b) THEN 0
    ELSE IF b[i] = t THEN i ELSE Find(b, t, i + 1)

JsonError == ("error" :> "error")

\* The string whose bytes are b[i..j].
Unchars(b, i, j) ==
    LET c == SubSeq(b, i, j) IN
    IF \E v \in Strings : Chars(v) = c
    THEN CHOOSE v \in Strings : Chars(v) = c
    ELSE "?"

\* json.loads, line 386, for an object of string members: the members read
\* from position i on, or JsonError.
RECURSIVE JsonMembers(_, _, _)
JsonMembers(b, i, acc) ==
    IF i > Len(b) \/ b[i] # "\"" THEN JsonError
    ELSE LET kq == Find(b, "\"", i + 1) IN
    IF kq = 0 \/ kq + 2 > Len(b) \/ b[kq + 1] # ":" \/ b[kq + 2] # "\""
    THEN JsonError
    ELSE LET vq == Find(b, "\"", kq + 3) IN
    IF vq = 0 \/ vq + 1 > Len(b) THEN JsonError
    ELSE LET acc2 == (Unchars(b, i + 1, kq - 1) :> Unchars(b, kq + 3, vq - 1))
                     @@ acc
         IN  IF b[vq + 1] = "}" /\ vq + 1 = Len(b) THEN acc2
             ELSE IF b[vq + 1] = "," THEN JsonMembers(b, vq + 2, acc2)
             ELSE JsonError

JsonLoads(b) ==
    IF Len(b) < 2 \/ b[1] # "{" THEN JsonError
    ELSE IF Len(b) = 2 /\ b[2] = "}" THEN EmptyMapping
    ELSE JsonMembers(b, 2, EmptyMapping)

\* --- payload bytes
ToBytes(data) == [i \in 1..Len(data) |-> IF data[i] = 0 THEN "0" ELSE "1"]
FromBytes(b) == [i \in 1..Len(b) |-> IF b[i] = "0" THEN 0 ELSE 1]

\* metadata.update(**kwargs), line 357.
Updated(metadata, kwargs) == kwargs @@ metadata

\* serialize, lines 356-361.
Serialize(typedef, obj, kwargs) ==
    LET e == Encode(obj, typedef) IN
    IF e.status # "ok" THEN [status |-> e.status, msg |-> <<>>]
    ELSE [status |-> "ok",
          msg |-> JsonDumps(Updated(e.metadata, kwargs)) \o <<sep>>
                  \o ToBytes(e.data)]

Deserialized(status, obj, metadata, calls) ==
    [status |-> status, obj |-> obj, metadata |-> metadata, calls |-> calls]

\* A deserialize that looks for the separator in every message.
IsEmptyNever(b) == FALSE

\* deserialize, line 379.
IsEmpty(b) == Len(b) = 0

\* deserialize, lines 377-388.
Deserialize(typedef, b) ==
    IF IsEmpty(b) THEN Deserialized("ok", empty_msg, EmptyMapping, <<>>)
    ELSE LET at == Find(b, sep, 1) IN
    IF at = 0 THEN Deserialized("ValueError", empty_msg, None, <<>>)
    ELSE LET metadata == JsonLoads(SubSeq(b, 1, at - 1))
             data == FromBytes(SubSeq(b, at + 1, Len(b)))
         IN  IF metadata = JsonError
             THEN Deserialized("ValueError", empty_msg, None, <<"json.loads">>)
             ELSE LET d == Decode(metadata, data, typedef) IN
                  Deserialized(d.status, d.obj, metadata,
                               <<"json.loads", "decode">>)

\* --- one instance: it is constructed, its typedef is updated, and it
\* serializes an object or deserializes a message that arrived.
TypedefKwargs ==
    {EmptyMapping}
    \cup { ("typename" :> n) : n \in {name, "str", ""} }
    \cup { ("precision" :> p) : p \in PrecisionValues \cup {"3"} }
    \cup { ("typename" :> n) @@ ("precision" :> p) :
            n \in {name, "str", ""}, p \in PrecisionValues \cup {"3"} }
HeaderKwargs == {EmptyMapping, ("model" :> "A"), ("model" :> "a:CIS_TAG:b")}
ArrivingMessages ==
    { <<>>, <<"0">>, <<sep, "1">>, <<"{", sep, "1">>,
      JsonDumps(("typename" :> name) @@ ("precision" :> "1"))
        \o <<sep, "1">>,
      JsonDumps(("typename" :> name) @@ ("precision" :> "2"))
        \o <<sep, "1", "1">> }

NoResult == Deserialized("none", empty_msg, None, <<>>)

NewInstance(kwargs) ==
    [stage |-> "new", typedef |-> EmptyMapping, status |-> "none",
     obj |-> StrObject, kwargs |-> kwargs, msg |-> <<>>, out |-> NoResult,
     nupdate |-> 0]

TypeInputs == { NewInstance(kw) : kw \in TypedefKwargs }

\* CisBaseType(**typedef): there is an instance only when __init__ returns.
TypeConstruct ==
    /\ inst.stage = "new"
    /\ LET r == Construct(inst.kwargs) IN
        inst' = [inst EXCEPT
                   !.stage = IF r.status = "ok" THEN "ready" ELSE "failed",
                   !.status = r.status,
                   !.typedef = r.typedef,
                   !.kwargs = EmptyMapping]
    /\ UNCHANGED <<dvars, codec, table, conn, printing>>

\* update_typedef(**kwargs) on the instance.
TypeUpdate ==
    /\ inst.stage = "ready"
    /\ inst.nupdate < MaxUpdate
    /\ \E kw \in TypedefKwargs :
        LET r == UpdateTypedef(inst.typedef, kw) IN
        inst' = [inst EXCEPT !.status = r.status,
                             !.typedef = r.typedef,
                             !.kwargs = kw,
                             !.nupdate = @ + 1]
    /\ UNCHANGED <<dvars, codec, table, conn, printing>>

\* serialize(obj, **kwargs) on the instance.
TypeSerialize ==
    /\ inst.stage = "ready"
    /\ \E o \in {x \in Objects : WellFormed(x)}, kw \in HeaderKwargs :
        LET r == Serialize(inst.typedef, o, kw) IN
        inst' = [inst EXCEPT
                   !.stage = IF r.status = "ok" THEN "serialized"
                             ELSE "refused",
                   !.status = r.status,
                   !.obj = o,
                   !.kwargs = kw,
                   !.msg = r.msg]
    /\ UNCHANGED <<dvars, codec, table, conn, printing>>

\* A message arrives from a comm.
TypeArrive ==
    /\ inst.stage = "ready"
    /\ \E b \in ArrivingMessages :
        inst' = [inst EXCEPT !.stage = "arrived", !.msg = b,
                             !.kwargs = EmptyMapping]
    /\ UNCHANGED <<dvars, codec, table, conn, printing>>

\* deserialize(msg) on the instance.
TypeDeserialize ==
    /\ inst.stage \in {"serialized", "arrived"}
    /\ LET r == Deserialize(inst.typedef, inst.msg) IN
        inst' = [inst EXCEPT
                   !.stage = IF inst.stage = "serialized"
                             THEN "deserialized" ELSE "deserialized_arrived",
                   !.status = r.status,
                   !.out = r]
    /\ UNCHANGED <<dvars, codec, table, conn, printing>>

TypeNext ==
    \/ TypeConstruct
    \/ TypeUpdate
    \/ TypeSerialize
    \/ TypeArrive
    \/ TypeDeserialize

\* ====================================================== AsciiTableComm
\* cis_interface/communication/AsciiTableComm.py.  Keyword arguments are
\* mappings from names to values.
TableSettings ==
    {"format_str", "dtype", "column_names", "column", "use_astropy"}

\* Lines 25-26: 'column' 'use_astropy' is one string literal.
file_keys == {"format_str", "dtype", "column_names", "columnuse_astropy"}

\* AsciiTable(address, mode, **file_kwargs): a setting that is not passed has
\* its default.
TableDefault(k) ==
    CASE k = "column" -> "tab"
      [] k = "use_astropy" -> "False"
      [] OTHER -> "None"
AsciiTable(file_kwargs) ==
    [k \in TableSettings |->
        IF k \in DOMAIN file_kwargs THEN file_kwargs[k] ELSE TableDefault(k)]

\* __init__, lines 24-43: the endpoint built from keyword arguments.
NewTableComm(kwargs) ==
    LET file_kwargs == [k \in DOMAIN kwargs \cap file_keys |-> kwargs[k]]
        parent_kwargs == [k \in DOMAIN kwargs \ file_keys |-> kwargs[k]]
    IN  [file_kwargs |-> file_kwargs,
         parent_kwargs |-> parent_kwargs,
         file |-> AsciiTable(file_kwargs)]

\* The parent's opp_comm_kwargs: the comm class and the address.
ParentOppCommKwargs(comm) ==
    [k \in DOMAIN comm.parent_kwargs \cap {"comm", "address"} |->
        comm.parent_kwargs[k]]

\* opp_comm_kwargs, lines 45-59.
OppCommKwargs(comm) ==
    [k \in TableSettings |-> comm.file[k]] @@ ParentOppCommKwargs(comm)

\* --- an endpoint is constructed, asked for the keyword arguments of its
\* opposite, and the opposite is constructed from them.
TableValues(k) ==
    CASE k = "format_str" -> {"%d", "%f"}
      [] k = "dtype" -> {"i4", "f8"}
      [] k = "column_names" -> {"x", "y"}
      [] k = "column" -> {"tab", "comma"}
      [] k = "use_astropy" -> {"False", "True"}
Absent == "absent"
Given(choice) ==
    [k \in {x \in TableSettings : choice[x] # Absent} |-> choice[k]]
    @@ ("address" :> "file")
UserKwargs ==
    { Given([format_str |-> a, dtype |-> b, column_names |-> c,
             column |-> d, use_astropy |-> e]) :
        a \in TableValues("format_str") \cup {Absent},
        b \in TableValues("dtype") \cup {Absent},
        c \in TableValues("column_names") \cup {Absent},
        d \in TableValues("column") \cup {Absent},
        e \in TableValues("use_astropy") \cup {Absent} }

NoComm == NewTableComm(EmptyMapping)
NewTable(kwargs) ==
    [stage |-> "new", kwargs |-> kwargs, comm |-> NoComm,
     opp_kwargs |-> EmptyMapping, opp |-> NoComm]
TableInputs == { NewTable(kw) : kw \in UserKwargs }

TableConstruct ==
    /\ table.stage = "new"
    /\ table' = [table EXCEPT !.stage = "built",
                              !.comm = NewTableComm(table.kwargs)]
    /\ UNCHANGED <<dvars, codec, inst, conn, printing>>

TableOppKwargs ==
    /\ table.stage = "built"
    /\ table' = [table EXCEPT !.stage = "asked",
                              !.opp_kwargs = OppCommKwargs(table.comm)]
    /\ UNCHANGED <<dvars, codec, inst, conn, printing>>

TableConstructOpp ==
    /\ table.stage = "asked"
    /\ table' = [table EXCEPT !.stage = "paired",
                              !.opp = NewTableComm(table.opp_kwargs)]
    /\ UNCHANGED <<dvars, codec, inst, conn, printing>>

TableNext ==
    \/ TableConstruct
    \/ TableOppKwargs
    \/ TableConstructOpp

\* ====================================================== connection driver
\* The ConnectionDriver that drivers/tests/test_ConnectionDriver.py
\* exercises: a pump from its input comm (icomm) to its output comm (ocomm).
\* The test holds the opposite endpoints: send_comm feeds icomm and
\* recv_comm drains ocomm.  A message is a sequence of bytes; the transport
\* carries frames of at most maxMsgSize bytes.
MaxSend == 2                          \* sends into the driver in one run
maxMsgSize == 2
msg_short == <<1>>
msg_long == <<1, 2, 3>>
Messages == {msg_short, msg_long}
NoMsg == <<-1>>                       \* None: not a byte string
ConnStates == <<"INIT", "OPEN", "CLOSING", "CLOSED">>
Rank(st) == CHOOSE i \in 1..Len(ConnStates) : ConnStates[i] = st

\* --- frames on the transport
Whole(m) == [kind |-> "whole", data |-> m, size |-> Len(m)]
HeadFrame(m) == [kind |-> "head", data |-> <<>>, size |-> Len(m)]
Chunk(d) == [kind |-> "chunk", data |-> d, size |-> Len(d)]

\* The size-unbounded send splits a payload longer than the limit.
RECURSIVE Chunks(_)
Chunks(m) ==
    IF m = <<>> THEN <<>>
    ELSE IF Len(m) <= maxMsgSize THEN <<Chunk(m)>>
    ELSE <<Chunk(SubSeq(m, 1, maxMsgSize))>>
         \o Chunks(SubSeq(m, maxMsgSize + 1, Len(m)))

Frames(m) ==
    IF Len(m) <= maxMsgSize THEN <<Whole(m)>>
    ELSE <<HeadFrame(m)>> \o Chunks(m)

\* The receiving side puts the chunks that follow a head frame together.
RECURSIVE Gather(_, _, _)
Gather(q, i, need) ==
    IF need <= 0 THEN [ok |-> TRUE, data |-> <<>>, next |-> i]
    ELSE IF i > Len(q) \/ q[i].kind # "chunk"
         THEN [ok |-> FALSE, data |-> <<>>, next |-> i]
         ELSE LET r == Gather(q, i + 1, need - Len(q[i].data))
              IN [ok |-> r.ok, data |-> q[i].data \o r.data, next |-> r.next]

\* The first message of a queue of frames, and where the next one starts.
Front(q) ==
    IF q = <<>> THEN [ok |-> FALSE, data |-> <<>>, next |-> 1]
    ELSE IF q[1].kind = "whole"
         THEN [ok |-> TRUE, data |-> q[1].data, next |-> 2]
         ELSE Gather(q, 2, q[1].size)

Rest(q) == SubSeq(q, Front(q).next, Len(q))

\* The messages waiting in a queue.
RECURSIVE Pending(_)
Pending(q) ==
    IF q = <<>> \/ ~Front(q).ok THEN 0
    ELSE 1 + Pending(Rest(q))

\* --- the communicator's operations
IsOpen(comm) == comm = "open"
IsClosed(comm) == ~IsOpen(comm)

\* A send that answers True whatever the state of the comm.
CommSendAlways(comm, q, m) == [flag |-> TRUE, q |-> q \o Frames(m)]

\* send(msg) -> bool, and its size-unbounded variant.
CommSend(comm, q, m) ==
    IF IsClosed(comm) THEN [flag |-> FALSE, q |-> q]
    ELSE [flag |-> TRUE, q |-> q \o Frames(m)]

\* recv(timeout) -> (flag, msg), and its size-unbounded variant, for a
\* message that arrives within the timeout.
CommRecv(comm, q) ==
    IF IsClosed(comm) THEN [flag |-> FALSE, msg |-> NoMsg, q |-> q]
    ELSE [flag |-> TRUE, msg |-> Front(q).data, q |-> Rest(q)]

\* Which operation takes which message: send takes one that fits a frame.
Fits(nolimit, m) == nolimit \/ Len(m) <= maxMsgSize

\* --- the driver
NoOp == [name |-> "none", closed |-> FALSE, flag |-> TRUE, msg |-> NoMsg]

NewConnection ==
    [state |-> "INIT", icomm |-> "unopened", ocomm |-> "unopened",
     send_comm |-> "open", recv_comm |-> "open",
     inq |-> <<>>, outq |-> <<>>, held |-> NoMsg,
     sent_in |-> <<>>, received |-> <<>>, op |-> NoOp, nsend |-> 0]

is_conn_open == IsOpen(conn.icomm) /\ IsOpen(conn.ocomm)
is_conn_closed == IsClosed(conn.icomm) /\ IsClosed(conn.ocomm)
n_msg == Pending(conn.inq)

\* What the pump hands to the output side for one held message.
ForwardTwice(m) == Frames(m) \o Frames(m)

Forward(m) == Frames(m)

\* A close_comm that leaves the run state alone.
CloseStateKept(st) == st

\* The run state after the comms were closed under a running loop.
CloseState(st) == IF st = "OPEN" THEN "CLOSING" ELSE st

\* start: the comms open and the loop runs.
ConnStart ==
    /\ conn.state = "INIT"
    /\ conn.icomm = "unopened"
    /\ conn' = [conn EXCEPT !.state = "OPEN", !.icomm = "open",
                            !.ocomm = "open"]
    /\ UNCHANGED <<dvars, codec, inst, table, printing>>

\* The loop body, first half: receive from the input side.
ConnRecv ==
    /\ conn.state = "OPEN"
    /\ IsOpen(conn.icomm)
    /\ conn.held = NoMsg
    /\ Front(conn.inq).ok
    /\ LET r == CommRecv(conn.icomm, conn.inq)
       IN conn' = [conn EXCEPT !.held = r.msg, !.inq = r.q]
    /\ UNCHANGED <<dvars, codec, inst, table, printing>>

\* The loop body, second half: forward to the output side.
ConnSend ==
    /\ conn.state = "OPEN"
    /\ conn.held # NoMsg
    /\ conn' = [conn EXCEPT
                  !.held = NoMsg,
                  !.outq = IF IsOpen(conn.ocomm)
                           THEN @ \o Forward(conn.held) ELSE @]
    /\ UNCHANGED <<dvars, codec, inst, table, printing>>

\* close_comm: both comms are closed; a running loop is told to stop.
ConnCloseComm ==
    /\ conn.state \in {"INIT", "OPEN"}
    /\ ~(conn.icomm = "closed" /\ conn.ocomm = "closed")
    /\ conn' = [conn EXCEPT !.icomm = "closed", !.ocomm = "closed",
                            !.held = NoMsg,
                            !.state = CloseState(@)]
    /\ UNCHANGED <<dvars, codec, inst, table, printing>>

\* The loop of a driver that is closing returns and the thread ends.
ConnLoopExit ==
    /\ conn.state = "CLOSING"
    /\ conn' = [conn EXCEPT !.state = "CLOSED"]
    /\ UNCHANGED <<dvars, codec, inst, table, printing>>

\* terminate: the comms are closed and the driver is stopped.
ConnTerminate ==
    /\ conn.state # "CLOSED"
    /\ conn' = [conn EXCEPT !.icomm = "closed", !.ocomm = "closed",
                            !.held = NoMsg, !.state = "CLOSED"]
    /\ UNCHANGED <<dvars, codec, inst, table, printing>>

\* send_comm.close() and recv_comm.close() of the test.
EndpointClose ==
    /\ \E which \in {"send_comm", "recv_comm"} :
          /\ IsOpen(conn[which])
          /\ conn' = [conn EXCEPT ![which] = "closed"]
    /\ UNCHANGED <<dvars, codec, inst, table, printing>>

\* send_comm.send(msg) and send_comm.send_nolimit(msg).
EndpointSend ==
    /\ conn.nsend < MaxSend
    /\ \E nolimit \in BOOLEAN, m \in Messages :
          /\ Fits(nolimit, m)
          /\ LET r == CommSend(conn.send_comm, conn.inq, m)
             IN conn' = [conn EXCEPT
                   !.inq = r.q,
                   !.sent_in = IF r.flag THEN Append(@, m) ELSE @,
                   !.nsend = @ + 1,
                   !.op = [name |-> IF nolimit THEN "send_nolimit" ELSE "send",
                           closed |-> IsClosed(conn.send_comm),
                           flag |-> r.flag, msg |-> m]]
    /\ UNCHANGED <<dvars, codec, inst, table, printing>>

\* recv_comm.recv(timeout) and recv_comm.recv_nolimit(timeout).
EndpointRecv ==
    /\ \E nolimit \in BOOLEAN :
          /\ \/ /\ IsClosed(conn.recv_comm)
                /\ conn.op.name \notin {"recv", "recv_nolimit"}
             \/ /\ IsOpen(conn.recv_comm)
                /\ Front(conn.outq).ok
                /\ Fits(nolimit, Front(conn.outq).data)
          /\ LET r == CommRecv(conn.recv_comm, conn.outq)
             IN conn' = [conn EXCEPT
                   !.outq = r.q,
                   !.received = IF r.flag THEN Append(@, r.msg) ELSE @,
                   !.op = [name |-> IF nolimit THEN "recv_nolimit" ELSE "recv",
                           closed |-> IsClosed(conn.recv_comm),
                           flag |-> r.flag, msg |-> r.msg]]
    /\ UNCHANGED <<dvars, codec, inst, table, printing>>

ConnNext ==
    \/ ConnStart
    \/ ConnRecv
    \/ ConnSend
    \/ ConnCloseComm
    \/ ConnLoopExit
    \/ ConnTerminate
    \/ EndpointClose
    \/ EndpointSend
    \/ EndpointRecv

\* ========================================================= specifications
Init ==
    /\ DriverInit
    /\ codec = CodecStart(StrObject, None)
    /\ inst = NewInstance(EmptyMapping)
    /\ table = NewTable(EmptyMapping)
    /\ conn = NewConnection
    /\ printing = NewPrinting

Spec == Init /\ [][Next]_vars

PrintSpec == Init /\ [][PrintNext]_vars

CodecInit ==
    /\ DriverInit
    /\ codec \in CodecInputs
    /\ inst = NewInstance(EmptyMapping)
    /\ table = NewTable(EmptyMapping)
    /\ conn = NewConnection
    /\ printing = NewPrinting

CodecSpec == CodecInit /\ [][CodecNext]_vars

TypeInit ==
    /\ DriverInit
    /\ codec = CodecStart(StrObject, None)
    /\ inst \in TypeInputs
    /\ table = NewTable(EmptyMapping)
    /\ conn = NewConnection
    /\ printing = NewPrinting

TypeSpec == TypeInit /\ [][TypeNext]_vars

TableInit ==
    /\ DriverInit
    /\ codec = CodecStart(StrObject, None)
    /\ inst = NewInstance(EmptyMapping)
    /\ table \in TableInputs
    /\ conn = NewConnection
    /\ printing = NewPrinting

TableSpec == TableInit /\ [][TableNext]_vars

ConnSpec == Init /\ [][ConnNext]_vars

\* ================================================================= claims
\* The message, if any, that this step hands to the base send_message.
Handed == IF Len(sent') > Len(sent) THEN {sent'[Len(sent')]} ELSE {}

\* The response drivers bound to an outgoing request's pair.
RoutesOf(m) ==
    { d \in 1..Len(drivers) :
        /\ drivers[d].response_address = m.response_address
        /\ drivers[d].request_id = m.request_id }

NEof == Count(sent, LAMBDA m : IsEof(m) /\ OnChannel(m))
NClientEnd(n) == Count(sent, LAMBDA m : IsClientEnd(m) /\ m.model = n)

\* C1: whenever send_message hands a non-EOF message to the base send, a
\* Response Driver bound to its (response_address, request_id) has been
\* constructed, added to response_drivers (it is still listed, or it left the
\* list by termination or pruning) and its start() has completed.
C1_RouteStartedBeforeSend ==
    [][\A m \in Handed :
          IsRequest(m) =>
            \E d \in RoutesOf(m) :
                /\ drivers[d].started
                /\ d = response_driver
                /\ \/ d \in Range(response_drivers)
                   \/ drivers[d].terminated
                   \/ drivers[d].cleaned]_vars

\* C1 witness: a tagged request is on the shared request channel.
C1_Witness ==
    \E i \in 1..Len(sent) : IsRequest(sent[i]) /\ OnChannel(sent[i])

C3_EofAtMostOnce == NEof <= 1

\* C4: when the Response Driver's constructor or start() raises inside
\* send_message, send_message returns False to the loop, the loop goes on, and
\* the message is not handed to the base send; no request handed to the base
\* send belongs to a driver that was not started.
C4_FailedStartSendsNothing ==
    [][/\ (/\ pc["W"] = "send_lock"
           /\ pc'["W"] # "send_lock"
           /\ ~(/\ Len(drivers') > Len(drivers)
                /\ drivers'[Len(drivers')].started))
          => (/\ send_ret' = FALSE
              /\ sent' = sent
              /\ pc'["W"] \in {"prune", "done"})
       /\ \A m \in Handed :
            IsRequest(m) => \A d \in RoutesOf(m) : drivers[d].started]_vars

\* C4 witness: send_message returned False for a request while the comms were
\* open and response drivers were not blocked, and nothing was sent.
C4_Witness ==
    /\ pc["W"] = "prune"
    /\ msg.flag = FLAG_SUCCESS
    /\ send_ret = FALSE
    /\ is_comm_open
    /\ ~block_response
    /\ sent = <<>>

\* C5: when construction or start of the Response Driver fails, the list
\* response_drivers is the same after send_message as before it.
C5_FailureLeavesListUnchanged ==
    [][(/\ pc["W"] = "send_lock"
        /\ pc'["W"] # "send_lock"
        /\ ~ResponseBlocked
        /\ send_ret' = FALSE)
          => response_drivers' = response_drivers]_vars

\* C6: a prune pass removes exactly the listed drivers that are not alive and
\* whose input comm confirmed the receive and output comm confirmed the send;
\* the others stay, in their order.
C6_PruneExactlyCompleted ==
    [][(pc["W"] = "prune" /\ pc'["W"] = "recv")
          => response_drivers' =
                SelectSeq(response_drivers,
                          LAMBDA d : ~(/\ ~drivers[d].alive
                                       /\ drivers[d].confirmed_recv
                                       /\ drivers[d].confirmed_send))]_vars

\* C6 witness: a completed driver was pruned while an in-flight one is kept.
C6_Witness ==
    /\ pc["W"] = "recv"
    /\ \E d \in 1..Len(drivers) :
        drivers[d].cleaned /\ d \notin Range(response_drivers)
    /\ \E d \in Range(response_drivers) : drivers[d].alive

\* C7: close_comm terminates every listed Response Driver and empties the
\* list before the driver's own comms are closed, and once
\* close_response_drivers has run every Response Driver ever constructed is
\* terminated or was pruned as completed.
C7_TerminateThenClose ==
    /\ (pc["X"] = "close_base") => (response_drivers = <<>>)
    /\ ((~ocomm_open) \/ (~icomm_open) \/ pc["X"] \in {"close_base", "closed"})
          => \A d \in 1..Len(drivers) :
                drivers[d].terminated \/ drivers[d].cleaned
    /\ (nclose > 0 /\ pc["X"] = "idle") => (~icomm_open /\ ~ocomm_open)

\* C7 witness: close_comm has returned after terminating a running driver.
C7_Witness ==
    /\ nclose > 0
    /\ pc["X"] = "idle"
    /\ \E d \in 1..Len(drivers) : drivers[d].terminated /\ drivers[d].started

C9_LiveRouteAtTransmission ==
    [][\A m \in Handed :
          (IsRequest(m) /\ OnChannel(m)) =>
            \E d \in RoutesOf(m) :
                drivers[d].started /\ ~drivers[d].terminated]_vars

\* C10: an object that is valid under a definition is encoded without error,
\* what encode returned is decoded without error to an object equal to the
\* original, and the decoded object is valid under the same definition.
C10_RoundTrip ==
    (codec.typedef # None /\ CheckDecoded(codec.obj, codec.typedef)) =>
        /\ (codec.stage \in {"encoded", "decoded"})
              => codec.encoded.status = "ok"
        /\ (codec.stage = "decoded") =>
              /\ codec.decoded.status = "ok"
              /\ codec.decoded.obj = codec.obj
              /\ CheckDecoded(codec.decoded.obj, codec.typedef)

\* C10 witness: a valid object with a value other than zero was encoded and
\* decoded.
C10_Witness ==
    /\ codec.stage = "decoded"
    /\ codec.typedef # None
    /\ CheckDecoded(codec.obj, codec.typedef)
    /\ codec.obj.value = 2
    /\ codec.encoded.data = <<0, 1>>

C12_EmptyEnvelope ==
    (inst.stage = "deserialized_arrived" /\ Len(inst.msg) = 0)
      => /\ inst.out.status = "ok"
         /\ inst.out.obj = empty_msg
         /\ inst.out.metadata = EmptyMapping
         /\ "decode" \notin Range(inst.out.calls)

\* C12 witness: an instance whose typedef was updated deserialized the
\* zero-length message.
C12_Witness ==
    /\ inst.stage = "deserialized_arrived"
    /\ inst.msg = <<>>
    /\ inst.nupdate > 0
    /\ inst.out.status = "ok"
    /\ inst.out.obj = empty_msg

\* The header serialize wrote for the instance's object and keywords.
HeaderWritten ==
    Updated(Encode(inst.obj, inst.typedef).metadata, inst.kwargs)

\* C18: the separator does not occur inside the serialized header, and
\* deserialize of what serialize returned gives back the header that was
\* written and the object that was encoded.
C18_SeparatorNotInHeader ==
    /\ (inst.stage \in {"serialized", "deserialized"})
          => sep \notin Range(JsonDumps(HeaderWritten))
    /\ (inst.stage = "deserialized")
          => /\ inst.out.status = "ok"
             /\ inst.out.metadata = HeaderWritten
             /\ inst.out.obj = inst.obj

\* C19: an instance's typedef holds typename, an update_typedef call leaves
\* typename as it was, and a call that names another typename raises
\* CisTypeError.
C19_TypenameImmutable ==
    [][(inst.stage = "ready" /\ inst'.stage = "ready")
         => /\ "typename" \in DOMAIN inst'.typedef
            /\ Get(inst'.typedef, "typename") = Get(inst.typedef, "typename")
            /\ (/\ "typename" \in DOMAIN inst'.kwargs
                /\ inst'.kwargs["typename"] # inst.typedef["typename"])
                  => inst'.status = "CisTypeError"]_vars

\* The checks among the calls of encode and decode.
IsCheck(c) == c \in {"check_decoded", "check_encoded"}

\* C20: what encode returns passed check_encoded and what decode returns
\* passed check_decoded against the typedef, and in both the value is returned
\* as it was checked: the last call before the return is a check, and a check
\* also precedes the type's hooks.
C20_ValidatedAsReturned ==
    /\ (codec.stage \in {"encoded", "decoded"} /\ codec.encoded.status = "ok")
          => /\ CheckEncoded(codec.encoded.metadata, codec.typedef)
             /\ IsCheck(codec.encoded.calls[1])
             /\ IsCheck(codec.encoded.calls[Len(codec.encoded.calls)])
    /\ (codec.decoded.status = "ok")
          => /\ CheckDecoded(codec.decoded.obj, codec.typedef)
             /\ IsCheck(codec.decoded.calls[1])
             /\ IsCheck(codec.decoded.calls[Len(codec.decoded.calls)])

\* C13: remove_model('input', name) for a name that is not in the registry
\* goes on without an error, hands no client-end sentinel to the send and
\* leaves the registry as it is, so a second EOF of a client leaves the
\* registry as the first one left it.
C13_UnknownSignOffNoOp ==
    [][(/\ pc["W"] \in {"rm_sentinel", "rm_remove"}
        /\ pc'["W"] # pc["W"]
        /\ rm.direction = "input"
        /\ rm.name \notin clients)
          => /\ models' = models
             /\ sent' = sent
             /\ pc'["W"] \in {"rm_remove", "rm_eof"}]_vars

\* C13 witness: the EOF of client A was delivered twice; after the second
\* one the registry holds B and the only message sent is A's one sentinel.
C13_Witness ==
    /\ pc["W"] = "eof_check"
    /\ nrecv = 2
    /\ rm.name = "A"
    /\ signed_off = {"A"}
    /\ clients = {"B"}
    /\ Len(sent) = 1
    /\ IsClientEnd(sent[1])

C15_HeaderAttached ==
    [][\A m \in Handed :
          IsRequest(m) =>
            /\ m.request_id = msg.request_id
            /\ m.model = msg.model
            /\ m.commtype \in CommTypes
            /\ response_driver \in RoutesOf(m)]_vars

\* C16: once the driver's loop has started, exactly one client-begin marker
\* has been handed to the send, and it precedes every forwarded request.
C16_ClientBeginOnce ==
    LET IsBegin(m) == m.args = YGG_CLIENT_INI IN
    /\ Count(sent, IsBegin) <= 1
    /\ (pc["W"] # "before_loop") => (Count(sent, IsBegin) = 1)
    /\ \A i \in 1..Len(sent) :
          IsRequest(sent[i]) => \E j \in 1..(i - 1) : IsBegin(sent[j])

\* C17: once every client has delivered an EOF and on_eof has handled it, the
\* loop is not left waiting with clients still registered: the Client Set is
\* empty and an EOF went downstream.
C17_TotalSignOffTerminates ==
    (/\ signed_off = InputModels
     /\ nclose = 0
     /\ pc["W"] \in {"prune", "recv"})
      => (clients = {} /\ NEof >= 1)

\* C30: an update_typedef call that raises, for a typename conflict or for a
\* definition that fails validation, leaves the stored typedef as it was.
C30_UpdateAllOrNothing ==
    [][(/\ inst.stage = "ready"
        /\ inst'.stage = "ready"
        /\ inst'.status # "ok")
          => inst'.typedef = inst.typedef]_vars

\* C27: what extract_typedef returns holds exactly those keys of the metadata
\* that the definition schema requires, with the metadata's values, and is a
\* valid definition; it raises when that subset is no valid definition; the
\* metadata passed in is left as it was.
C27_ExtractTypedef ==
    (codec.stage = "extracted") =>
        LET arg == codec.encoded.metadata
            r == codec.extracted
            reqkeys == definition_properties \cup {"typename"}
        IN  /\ r.metadata = arg
            /\ (r.status = "ok") =>
                  /\ DOMAIN r.out = DOMAIN arg \cap reqkeys
                  /\ \A k \in DOMAIN r.out : r.out[k] = arg[k]
                  /\ ValidateDefinition(r.out)
            /\ (r.status # "ok") =>
                  /\ r.status = "ValidationError"
                  /\ \/ ~(reqkeys \subseteq DOMAIN arg)
                     \/ arg["typename"] # name
                     \/ arg["precision"] \notin PrecisionValues

\* C27 witness: a header field that does not describe the type was dropped
\* from a valid definition.
C27_Witness ==
    /\ codec.stage = "extracted"
    /\ "model" \in DOMAIN codec.encoded.metadata
    /\ codec.extracted.status = "ok"
    /\ codec.extracted.out = ("typename" :> name) @@ ("precision" :> "2")

\* C26: every table setting that opp_comm_kwargs returns is routed into the
\* table file settings of the endpoint constructed from them, none is handed
\* on to the parent class, and the paired endpoint's table has the settings
\* of the original's.
C26_OppositeTableSettings ==
    (table.stage = "paired") =>
        /\ \A k \in TableSettings :
              /\ k \in DOMAIN table.opp_kwargs
              /\ k \in DOMAIN table.opp.file_kwargs
              /\ table.opp.file_kwargs[k] = table.opp_kwargs[k]
              /\ k \notin DOMAIN table.opp.parent_kwargs
        /\ table.opp.file = table.comm.file

\* C22: the worker comes back to the head of its loop only through a prune
\* pass, a prune pass is followed by the next iteration and not by another
\* pass, and no prune pass is made once was_break is set: the loop then ends.
C22_OnePrunePerIteration ==
    [][/\ (pc'["W"] = "recv" /\ pc["W"] \notin {"recv", "before_loop"})
            => pc["W"] = "prune"
       /\ (pc["W"] = "prune" /\ pc'["W"] # "prune")
            => (pc'["W"] = "recv" /\ ~was_break)
       /\ (pc'["W"] = "prune") => ~was_break'
       /\ (was_break /\ pc["W"] \notin {"send_check", "send_lock", "send_base"})
            => (pc'["W"] = "done"
                /\ response_drivers' \in {response_drivers, <<>>})]_vars

\* C22 witness: the loop ended with was_break set in its second iteration and
\* left a response driver of the first iteration that no pass removed.
C22_Witness ==
    /\ pc["W"] = "done"
    /\ was_break
    /\ nrecv = 2
    /\ nclose = 0
    /\ Len(response_drivers) > 0

C29_NoDriverAfterClose ==
    [][block_response =>
          /\ block_response'
          /\ response_drivers = <<>>
          /\ response_drivers' = <<>>
          /\ drivers' \in {drivers, TerminateAll(drivers, response_drivers)}
          /\ Len(drivers') = Len(drivers)
          /\ (pc["W"] = "send_lock" /\ pc'["W"] # "send_lock")
                => (send_ret' = FALSE /\ sent' = sent)]_vars

\* C29 witness: a request was refused because of the flag while the comms
\* were still open.
C29_Witness ==
    /\ block_response
    /\ is_comm_open
    /\ pc["W"] \in {"prune", "done"}
    /\ msg.flag = FLAG_SUCCESS
    /\ send_ret = FALSE
    /\ Len(drivers) = 0

\* C21: printStatus reads response_drivers only in a step it could take
\* as the lock's owner (no other thread holds the lock), and the list is
\* not changed by another thread while printStatus is iterating it.
C21_RegistriesUnderLock ==
    [][/\ (printing.stage = "iter" /\ printing'.stage = "iter")
            => response_drivers' = response_drivers
       /\ (printing' # printing) => lock.owner = NoThread]_vars

\* C23: the run state never moves back in INIT, OPEN, CLOSING, CLOSED and
\* never leaves CLOSED; a driver whose state is OPEN has both comms open; a
\* driver that is CLOSING or CLOSED has both comms closed; and a comm of the
\* driver that was closed stays closed.
C23_Lifecycle ==
    [][/\ Rank(conn'.state) >= Rank(conn.state)
       /\ (conn.state = "CLOSED") => (conn'.state = "CLOSED")
       /\ (conn'.state = "OPEN") => (IsOpen(conn'.icomm) /\ IsOpen(conn'.ocomm))
       /\ (conn'.state \in {"CLOSING", "CLOSED"})
            => (IsClosed(conn'.icomm) /\ IsClosed(conn'.ocomm))
       /\ (conn.icomm = "closed") => (conn'.icomm = "closed")
       /\ (conn.ocomm = "closed") => (conn'.ocomm = "closed")]_vars

\* C23 witness: close_comm was called on a running driver before any message
\* was sent, and its comms are closed.
C23_Witness ==
    /\ conn.state = "CLOSING"
    /\ conn.nsend = 0
    /\ is_conn_closed

\* C24: an operation on a closed comm answers a false flag, a recv on it
\* answers None, a refused send queues nothing, and a driver whose comms
\* are not both open forwards nothing to its output side.
C24_ClosedCommOperations ==
    [][/\ conn'.op.closed =>
            /\ conn'.op.flag = FALSE
            /\ (conn'.op.name \in {"recv", "recv_nolimit"})
                  => conn'.op.msg = NoMsg
       /\ (conn'.op # conn.op /\ conn'.op.closed) =>
            /\ conn'.inq = conn.inq
            /\ conn'.outq = conn.outq
            /\ conn'.sent_in = conn.sent_in
            /\ conn'.received = conn.received
       /\ ~(IsOpen(conn.icomm) /\ IsOpen(conn.ocomm)) =>
            /\ Len(conn'.outq) <= Len(conn.outq)
            /\ conn'.held = NoMsg]_vars

\* C24 witness: after close_comm and the close of the endpoints, a
\* size-unbounded recv answered (False, None) with a message still queued.
C24_Witness ==
    /\ is_conn_closed
    /\ conn.op.name = "recv_nolimit"
    /\ conn.op.closed
    /\ conn.op.flag = FALSE
    /\ IsClosed(conn.send_comm)
    /\ conn.inq # <<>>

\* a is the beginning of b.
IsPrefix(a, b) == Len(a) <= Len(b) /\ a = SubSeq(b, 1, Len(a))

\* C25: the messages received at the output side are, in order and byte for
\* byte, the first of the messages sent into the input side, and when every
\* message sent has been received the driver holds none (n_msg = 0).
C25_ForwardedUnchanged ==
    /\ IsPrefix(conn.received, conn.sent_in)
    /\ (conn.received = conn.sent_in) => (n_msg = 0 /\ conn.held = NoMsg)

\* C25 witness: a short and a long message, the long one sent through the
\* size-unbounded send, were both received and the driver is still OPEN.
C25_Witness ==
    /\ conn.state = "OPEN"
    /\ conn.received = <<msg_short, msg_long>>
    /\ conn.op.name = "recv_nolimit"
    /\ n_msg = 0
====
